---- MODULE Spec2Model ----
(***************************************************************************)
(* Model of src/RadarTechMetanoMVP03.py: the Streamlit script that loads a *)
(* workbook (Catalogo, Adopcion, Contactos), normalizes the headers,       *)
(* validates the required columns, derives the radar scores and filters    *)
(* the catalog.  One execution of the script is one run; pc is the         *)
(* script's position.                                                      *)
(*                                                                         *)
(* Text is modelled by TLA+ strings, read character by character with      *)
(* SubSeq, so that strip / replace / lower / "k in s" are computed as      *)
(* Python computes them.                                                   *)
(***************************************************************************)
EXTENDS Integers, Sequences, FiniteSets, TLC

VARIABLES
    npc,        \* position of the normalize_cols harness
    tbl_in,     \* headers of the table before normalize_cols is called
    tbl_arg,    \* the caller's table object (the argument df)
    tbl_ret,    \* the table normalize_cols returned
    tbl_ret2,   \* the table a second normalize_cols call returned
    rpc,        \* position of the req_check harness
    rq_df,      \* req_check's argument df
    rq_cols,    \* req_check's argument cols
    rq_title,   \* req_check's argument title
    rq_out,     \* what req_check returned: [ok, msg]
    bpc,        \* position of the map_robustez harness
    rb_row,     \* the catalog row map_robustez is applied to: [cols, cells]
    rb_score,   \* what map_robustez returned
    pc,         \* position of the script in the current run
    up_xlsx,    \* the uploaded workbook, or None
    df_cat,     \* the catalog table
    df_adop,    \* the adoption table
    df_contacts,\* the contacts table
    shown,      \* the status messages written to the page, in order
    cat_ok,     \* req_check's verdict on the catalog
    adp_ok,     \* req_check's verdict on the adoption table
    con_ok,     \* req_check's verdict on the contacts table
    validation_msgs, \* [cat_msg, adp_msg, con_msg]
    sel,        \* the values of the filter widgets
    df_cat_f,   \* the filtered catalog
    derived,    \* the columns this run has computed (history)
    filter_calls \* how many times this run invoked apply_filters (history)

normVars == <<npc, tbl_in, tbl_arg, tbl_ret, tbl_ret2>>

reqVars == <<rpc, rq_df, rq_cols, rq_title, rq_out>>

robVars == <<bpc, rb_row, rb_score>>

runVars ==
    <<pc, up_xlsx, df_cat, df_adop, df_contacts, shown, cat_ok, adp_ok, con_ok,
      validation_msgs, sel, df_cat_f, derived, filter_calls>>

vars == <<normVars, reqVars, robVars, runVars>>

(***************************************************************************)
(* Bounds of the model.                                                    *)
(***************************************************************************)
MaxHdrLen == 4

MaxMissing == 2

MaxWords == 2

MaxRows == 2

MaxPicked == 2

(***************************************************************************)
(* Definiciones (lines 9-17).                                              *)
(***************************************************************************)
REQUIRED_CATALOG_COLS ==
    <<"proveedor", "producto_modelo", "familia", "tipo", "principio", "escala",
      "continuo", "trl", "trlc", "segmento_negocio", "tipo_emision", "eje_monitoreo",
      "taxonomia", "limite_deteccion_valor", "limite_deteccion_unidad",
      "rango_deteccion_ppb_ppm", "exactitud_incertidumbre",
      "cobertura_espacial_temporal", "costo_capex_opex", "casos_uso",
      "condiciones_climaticas", "condiciones_operativas">>

REQUIRED_ADOP_COLS ==
    <<"empresa", "region", "tecnologias_reportadas", "segmento_negocio",
      "tipo_emision", "fecha">>

REQUIRED_CONT_COLS ==
    <<"proveedor", "producto_modelo", "familia", "region_principal",
      "contacto_tipo", "contacto_email", "sitio_web">>

(***************************************************************************)
(* Python str primitives.                                                  *)
(***************************************************************************)
Ch(s, i) == SubSeq(s, i, i)

Whitespace == {" ", "\t"}

UpperChars == "ABCDEFGHIJKLMNOPQRSTUVWXYZÁÉÍÓÚÑ"

LowerChars == "abcdefghijklmnopqrstuvwxyzáéíóúñ"

\* str.lower() on one character
LowerCh(c) ==
    IF \E i \in 1..Len(UpperChars) : Ch(UpperChars, i) = c
    THEN LET i == CHOOSE j \in 1..Len(UpperChars) : Ch(UpperChars, j) = c
         IN  Ch(LowerChars, i)
    ELSE c

RECURSIVE LowerRange(_, _, _)
LowerRange(s, lo, hi) ==
    IF lo > hi THEN ""
    ELSE IF lo = hi THEN LowerCh(Ch(s, lo))
    ELSE LET mid == (lo + hi) \div 2
         IN  LowerRange(s, lo, mid) \o LowerRange(s, mid + 1, hi)

\* str.lower(): every character lower-cased
Lower(s) == LowerRange(s, 1, Len(s))

\* str.strip(): drops leading and trailing whitespace
Strip(s) ==
    LET keep == {i \in 1..Len(s) : Ch(s, i) \notin Whitespace}
    IN  IF keep = {} THEN ""
        ELSE LET lo == CHOOSE i \in keep : \A j \in keep : i <= j
                 hi == CHOOSE i \in keep : \A j \in keep : j <= i
             IN  SubSeq(s, lo, hi)

\* k in s  (substring test)
Contains(s, k) ==
    \E i \in 1..(Len(s) - Len(k) + 1) : SubSeq(s, i, i + Len(k) - 1) = k

RECURSIVE ReplaceFrom(_, _, _, _)
ReplaceFrom(s, old, new, i) ==
    IF i > Len(s) THEN ""
    ELSE IF i + Len(old) - 1 <= Len(s) /\ SubSeq(s, i, i + Len(old) - 1) = old
         THEN new \o ReplaceFrom(s, old, new, i + Len(old))
         ELSE Ch(s, i) \o ReplaceFrom(s, old, new, i + 1)

\* str.replace(old, new): left to right, non-overlapping occurrences
Replace(s, old, new) == ReplaceFrom(s, old, new, 1)

(***************************************************************************)
(* normalize_cols                                                          *)
(***************************************************************************)
\* the list comprehension of line 38, for one header
CleanHeader(c) == Lower(Replace(Replace(Strip(c), "  ", " "), " ", "_"))

alias_map_chained(c) ==
    CASE c = "limite_deteccion"  -> "limite_deteccion_valor"
      [] c = "lod"               -> "limite_deteccion"
      [] c = "plataforma_escala" -> "escala"
      [] c = "plataforma"        -> "plataforma_escala"
      [] OTHER                   -> c

\* df.rename(columns=alias_map), for one header
alias_map(c) ==
    CASE c = "limite_deteccion"  -> "limite_deteccion_valor"
      [] c = "lod"               -> "limite_deteccion_valor"
      [] c = "plataforma_escala" -> "escala"
      [] c = "plataforma"        -> "escala"
      [] OTHER                   -> c

\* normalize_cols(df): line 38 assigns df.columns on the argument itself,
\* line 46 returns a renamed copy.  arg is the caller's object afterwards.
normalize_cols(df) ==
    LET assigned ==
            [df EXCEPT !.cols = [i \in 1..Len(df.cols) |-> CleanHeader(df.cols[i])]]
    IN  [arg |-> assigned,
         ret |-> [assigned EXCEPT
                    !.cols = [i \in 1..Len(df.cols) |-> alias_map(assigned.cols[i])]]]

(***************************************************************************)
(* Harness for normalize_cols: one table, normalized once and then again.  *)
(***************************************************************************)
HdrAlphabet == {" ", "\t", "_", "A", "a"}

RECURSIVE StringsUpTo(_)
StringsUpTo(n) ==
    IF n = 0 THEN {""}
    ELSE LET S == StringsUpTo(n - 1)
         IN  S \cup {s \o c : s \in S, c \in HdrAlphabet}

NamedHeaders ==
    {"lod", " LOD ", "Limite Deteccion", "Limite  Deteccion",
     "limite   deteccion", "Plataforma Escala", "PLATAFORMA", "plataforma_escala",
     "limite_deteccion_valor", "Escala", "TRL", " Segmento  Negocio\t"}

HeaderInputs == StringsUpTo(MaxHdrLen) \cup NamedHeaders

NoTable == [cols |-> <<>>, rows |-> <<>>]

OneCell == [s |-> "x"]

NormInputs ==
    {[cols |-> <<h>>, rows |-> <<<<OneCell>>>>] : h \in HeaderInputs}
    \cup {[cols |-> <<h, g>>, rows |-> r] :
             h \in NamedHeaders, g \in NamedHeaders,
             r \in {<<>>, <<<<OneCell, OneCell>>>>}}

IdleNorm ==
    /\ npc = "off"
    /\ tbl_in = NoTable
    /\ tbl_arg = NoTable
    /\ tbl_ret = NoTable
    /\ tbl_ret2 = NoTable

IdleReq ==
    /\ rpc = "off"
    /\ rq_df = NoTable
    /\ rq_cols = <<>>
    /\ rq_title = ""
    /\ rq_out = [ok |-> FALSE, msg |-> ""]

NaN == [nan |-> TRUE]

IdleRob ==
    /\ bpc = "off"
    /\ rb_row = [cols |-> <<>>, cells |-> <<>>]
    /\ rb_score = NaN

None == [none |-> TRUE]

\* the widgets' default values (lines 144-150)
NoSel ==
    [seg_sel |-> {}, tipo_sel |-> {}, eje_sel |-> {}, tax_sel |-> {},
     trl_min |-> 0, trl_max |-> 9, query |-> ""]

IdleRun ==
    /\ pc = "off"
    /\ up_xlsx = None
    /\ df_cat = NoTable
    /\ df_adop = NoTable
    /\ df_contacts = NoTable
    /\ shown = <<>>
    /\ cat_ok = FALSE
    /\ adp_ok = FALSE
    /\ con_ok = FALSE
    /\ validation_msgs = <<>>
    /\ sel = NoSel
    /\ df_cat_f = NoTable
    /\ derived = {}
    /\ filter_calls = 0

InitNorm ==
    /\ IdleRun
    /\ npc = "start"
    /\ tbl_in \in NormInputs
    /\ tbl_arg = tbl_in
    /\ tbl_ret = NoTable
    /\ tbl_ret2 = NoTable
    /\ IdleReq
    /\ IdleRob

CallNormalize ==
    /\ npc = "start"
    /\ LET r == normalize_cols(tbl_arg)
       IN  /\ tbl_arg' = r.arg
           /\ tbl_ret' = r.ret
    /\ npc' = "once"
    /\ UNCHANGED <<tbl_in, tbl_ret2, reqVars, robVars, runVars>>

CallNormalizeAgain ==
    /\ npc = "once"
    /\ tbl_ret2' = normalize_cols(tbl_ret).ret
    /\ npc' = "twice"
    /\ UNCHANGED <<tbl_in, tbl_arg, tbl_ret, reqVars, robVars, runVars>>

NextNorm == CallNormalize \/ CallNormalizeAgain

SpecNorm == InitNorm /\ [][NextNorm]_vars

\* C4: after normalize_cols(df) returns, the caller's table df still has the
\* headers it had before the call.
C4_ArgumentHeadersKept == npc # "start" => tbl_arg.cols = tbl_in.cols

\* C5: normalizing the normalized headers yields the same headers again.
C5_NormalizeIdempotent == npc = "twice" => tbl_ret2.cols = tbl_ret.cols

C5_Witness ==
    /\ npc = "twice"
    /\ tbl_in.cols = <<" LOD ", "Plataforma Escala">>
    /\ tbl_ret.cols = <<"limite_deteccion_valor", "escala">>
    /\ tbl_ret2.cols = tbl_ret.cols

(***************************************************************************)
(* Validaciones: req_check (lines 76-83).                                  *)
(***************************************************************************)
\* DataFrame.empty: some axis has length 0
Empty(df) == Len(df.cols) = 0 \/ Len(df.rows) = 0

\* c in df.columns
HasCol(df, c) == \E i \in 1..Len(df.cols) : df.cols[i] = c

RECURSIVE JoinFrom(_, _, _)
JoinFrom(parts, sep, i) ==
    IF i > Len(parts) THEN ""
    ELSE IF i = Len(parts) THEN parts[i]
    ELSE parts[i] \o sep \o JoinFrom(parts, sep, i + 1)

\* sep.join(parts)
Join(parts, sep) == JoinFrom(parts, sep, 1)

\* (the two emoji of the messages are written (!) and (ok))
NotLoadedMsg(title) == "(!) No se cargó **" \o title \o "**."

MissingMsg(title, miss) ==
    "(!) Faltan columnas en **" \o title \o "**: " \o Join(miss, ", ")

OkMsg(title) == "(ok) " \o title \o ": columnas mínimas OK."

req_check_first_missing(df, cols, title) ==
    IF Empty(df) THEN [ok |-> FALSE, msg |-> NotLoadedMsg(title)]
    ELSE LET NotIn(c) == ~HasCol(df, c)
             miss == SelectSeq(cols, NotIn)
         IN  IF miss # <<>>
             THEN [ok |-> FALSE, msg |-> MissingMsg(title, <<miss[1]>>)]
             ELSE [ok |-> TRUE, msg |-> OkMsg(title)]

req_check(df, cols, title) ==
    IF Empty(df) THEN [ok |-> FALSE, msg |-> NotLoadedMsg(title)]
    ELSE LET NotIn(c) == ~HasCol(df, c)
             miss == SelectSeq(cols, NotIn)
         IN  IF miss # <<>>
             THEN [ok |-> FALSE, msg |-> MissingMsg(title, miss)]
             ELSE [ok |-> TRUE, msg |-> OkMsg(title)]

(***************************************************************************)
(* Harness for req_check: a table, a required-column list and a title.     *)
(***************************************************************************)
DefaultCell == [s |-> "x"]

\* a table with the given headers and n rows of default cells
PlainTable(cols, n) ==
    [cols |-> cols, rows |-> [r \in 1..n |-> [i \in 1..Len(cols) |-> DefaultCell]]]

\* cols without the headers in drop, order kept
Without(cols, drop) ==
    LET Keep(c) == c \notin drop IN SelectSeq(cols, Keep)

Range(f) == {f[i] : i \in DOMAIN f}

DropSets(cols) == {d \in SUBSET Range(cols) : Cardinality(d) <= MaxMissing}

RequiredLists ==
    {<<"Catálogo", REQUIRED_CATALOG_COLS>>, <<"Adopción", REQUIRED_ADOP_COLS>>,
     <<"Contactos", REQUIRED_CONT_COLS>>}

ExtraHeaders == {<<>>, <<"notas">>, <<"exactitud_score", "trl_num">>}

InitReq ==
    /\ IdleRun
    /\ IdleNorm
    /\ IdleRob
    /\ rpc = "start"
    /\ \E tc \in RequiredLists, n \in 0..1, extra \in ExtraHeaders :
          \E d \in DropSets(tc[2]) :
             /\ rq_title = tc[1]
             /\ rq_cols = tc[2]
             /\ rq_df \in {PlainTable(extra \o Without(tc[2], d), n),
                            PlainTable(Without(tc[2], d) \o extra, n)}
    /\ rq_out = [ok |-> FALSE, msg |-> ""]

CallReqCheck ==
    /\ rpc = "start"
    /\ rq_out' = req_check(rq_df, rq_cols, rq_title)
    /\ rpc' = "returned"
    /\ UNCHANGED <<rq_df, rq_cols, rq_title, normVars, robVars, runVars>>

NextReq == CallReqCheck

SpecReq == InitReq /\ [][NextReq]_vars

AllPresent(df, cols) == \A i \in 1..Len(cols) : HasCol(df, cols[i])

\* the required columns that are no header of df, in the order of cols
MissingInOrder(df, cols) ==
    LET Absent(c) == \A j \in 1..Len(df.cols) : df.cols[j] # c
    IN  SelectSeq(cols, Absent)

\* C3 as stated: for every table, zero rows included, req_check returns
\* isValid = true iff every column of cols is a column of the table.
C3_ValidIffAllPresent ==
    rpc = "returned" => (rq_out.ok <=> AllPresent(rq_df, rq_cols))

\* C3 amended: for a table with at least one row and one column, isValid is
\* true iff every column of cols is a column of the table, and a false
\* result names exactly the missing columns in the order of cols; a table
\* with no rows or no columns is always reported as not loaded.
C3_ReqCheckAmended ==
    rpc = "returned" =>
        IF Empty(rq_df)
        THEN rq_out = [ok |-> FALSE, msg |-> NotLoadedMsg(rq_title)]
        ELSE /\ rq_out.ok <=> AllPresent(rq_df, rq_cols)
             /\ ~rq_out.ok =>
                   rq_out.msg = "(!) Faltan columnas en **" \o rq_title \o "**: "
                                \o Join(MissingInOrder(rq_df, rq_cols), ", ")

C3_Witness ==
    /\ rpc = "returned"
    /\ rq_title = "Catálogo"
    /\ Len(rq_df.rows) = 1
    /\ ~rq_out.ok
    /\ rq_out.msg = "(!) Faltan columnas en **Catálogo**: escala, taxonomia"

(***************************************************************************)
(* Cells.  A cell is a text [s |-> ..], a number [n |-> .., fl |-> ..]     *)
(* (fl: held as a float) or the missing value NaN.                         *)
(***************************************************************************)
IsNaN(c) == "nan" \in DOMAIN c

IsNum(c) == "n" \in DOMAIN c

IsStr(c) == "s" \in DOMAIN c

Txt(t) == [s |-> t]

Num(k) == [n |-> k, fl |-> FALSE]

Flt(k) == [n |-> k, fl |-> TRUE]

Digits == "0123456789"

RECURSIVE NatStr(_)
NatStr(k) ==
    IF k < 10 THEN Ch(Digits, k + 1)
    ELSE NatStr(k \div 10) \o Ch(Digits, (k % 10) + 1)

IntStr(k) == IF k < 0 THEN "-" \o NatStr(-k) ELSE NatStr(k)

\* str(x) of a cell value
PyStr(c) ==
    IF IsStr(c) THEN c.s
    ELSE IF IsNaN(c) THEN "nan"
    ELSE IF c.fl THEN IntStr(c.n) \o ".0" ELSE IntStr(c.n)

\* any(k in s for k in keys)
AnyIn(s, keys) == \E k \in keys : Contains(s, k)

\* row.get(name, default) on a row [cols, cells]
RowGet(row, name, default) ==
    IF \E i \in 1..Len(row.cols) : row.cols[i] = name
    THEN row.cells[CHOOSE i \in 1..Len(row.cols) :
                      /\ row.cols[i] = name
                      /\ \A j \in 1..(i - 1) : row.cols[j] # name]
    ELSE default

Max2(a, b) == IF a >= b THEN a ELSE b

Min2(a, b) == IF a <= b THEN a ELSE b

(***************************************************************************)
(* Heuristicas de puntajes (lines 104-139).                                *)
(***************************************************************************)
map_exactitud(x) ==
    LET s == Lower(PyStr(x))
    IN  IF AnyIn(s, {"ppb", "±0.0", "muy alta", "laboratorio"}) THEN Num(90)
        ELSE IF AnyIn(s, {"±", "alta"}) THEN Num(75)
        ELSE IF AnyIn(s, {"media", "screening"}) THEN Num(60)
        ELSE NaN

map_cobertura(x) ==
    LET s == Lower(PyStr(x))
    IN  IF AnyIn(s, {"regional", "satélite", "constelación"}) THEN Num(90)
        ELSE IF AnyIn(s, {"área", "aéreo", "uav", "bloque"}) THEN Num(75)
        ELSE IF AnyIn(s, {"on-site", "punto", "planta"}) THEN Num(60)
        ELSE NaN

map_costo(x) ==
    LET s == Lower(PyStr(x))
    IN  IF AnyIn(s, {"bajo", "low", "económico"}) THEN Num(90)
        ELSE IF AnyIn(s, {"medio", "moderado"}) THEN Num(70)
        ELSE IF AnyIn(s, {"alto", "suscripción", "por vuelo", "capex"}) THEN Num(50)
        ELSE NaN

map_robustez_no_penalty(row) ==
    LET clima == Lower(PyStr(RowGet(row, "condiciones_climaticas", Txt(""))))
        bonus == IF AnyIn(clima, {"amplio", "rango", "outdoor", "hostil"})
                 THEN 15 ELSE 0
    IN  Num(Max2(30, Min2(95, 60 + bonus)))

map_robustez(row) ==
    LET clima == Lower(PyStr(RowGet(row, "condiciones_climaticas", Txt(""))))
        op    == Lower(PyStr(RowGet(row, "condiciones_operativas", Txt(""))))
        s1    == IF AnyIn(clima, {"amplio", "rango", "outdoor", "hostil"})
                 THEN 60 + 15 ELSE 60
        s2    == IF AnyIn(op, {"línea de vista", "permiso", "espacio aéreo",
                               "clasificada"})
                 THEN s1 - 10 ELSE s1
    IN  Num(Max2(30, Min2(95, s2)))

(***************************************************************************)
(* Harness for map_robustez: one row with the two condition texts.         *)
(***************************************************************************)
RECURSIVE Phrases(_, _)
Phrases(words, k) ==
    IF k = 0 THEN {""}
    ELSE LET P == Phrases(words, k - 1)
         IN  P \cup words \cup {p \o " " \o w : p \in P \ {""}, w \in words}

ClimaWords == {"wide", "outdoor", "range", "Rango", "amplio"}

OpWords == {"requires", "permit", "Permiso", "línea de vista", "airspace"}

ClimaTexts ==
    {Txt(t) : t \in Phrases(ClimaWords, MaxWords)
                    \cup {"wide outdoor range", "harsh", "Clima HOSTIL"}}
    \cup {NaN}

OpTexts ==
    {Txt(t) : t \in Phrases(OpWords, MaxWords)
                    \cup {"requires permit", "line of sight", "classified",
                          "Información clasificada", "Espacio Aéreo restringido"}}
    \cup {NaN}

RobRows ==
    {[cols |-> <<"condiciones_climaticas", "condiciones_operativas">>,
      cells |-> <<c, o>>] : c \in ClimaTexts, o \in OpTexts}
    \cup {[cols |-> <<"condiciones_operativas">>, cells |-> <<o>>] : o \in OpTexts}
    \cup {[cols |-> <<"condiciones_climaticas">>, cells |-> <<c>>] : c \in ClimaTexts}
    \cup {[cols |-> <<>>, cells |-> <<>>]}

InitRob ==
    /\ IdleRun
    /\ IdleNorm
    /\ IdleReq
    /\ bpc = "start"
    /\ rb_row \in RobRows
    /\ rb_score = NaN

CallMapRobustez ==
    /\ bpc = "start"
    /\ rb_score' = map_robustez(rb_row)
    /\ bpc' = "returned"
    /\ UNCHANGED <<rb_row, normVars, reqVars, runVars>>

NextRob == CallMapRobustez

SpecRob == InitRob /\ [][NextRob]_vars

\* the text a condition column holds for the rule: the lower-cased cell,
\* "" when the column is absent and "nan" when the cell is missing
CondText(name) ==
    IF \E i \in 1..Len(rb_row.cols) : rb_row.cols[i] = name
    THEN LET i == CHOOSE j \in 1..Len(rb_row.cols) : rb_row.cols[j] = name
         IN  IF IsNaN(rb_row.cells[i]) THEN "nan" ELSE Lower(rb_row.cells[i].s)
    ELSE ""

RuleScore(climaKeys, opKeys) ==
    60 + (IF \E k \in climaKeys : Contains(CondText("condiciones_climaticas"), k)
          THEN 15 ELSE 0)
       - (IF \E k \in opKeys : Contains(CondText("condiciones_operativas"), k)
          THEN 10 ELSE 0)

\* C10 as stated: the score is 60, +15 if the climate text contains any of
\* {wide, range, outdoor, harsh}, -10 if the operating text contains any of
\* {line of sight, permit, airspace, classified}.
C10_EnglishKeywords ==
    bpc = "returned" =>
        rb_score = Num(RuleScore({"wide", "range", "outdoor", "harsh"},
                                 {"line of sight", "permit", "airspace",
                                  "classified"}))

\* C10 amended: the score is always defined and is 60, +15 if the lower-cased
\* climate text contains any of {amplio, rango, outdoor, hostil}, -10 if the
\* lower-cased operating text contains any of {línea de vista, permiso,
\* espacio aéreo, clasificada}; it lies in [30,95]; empty or missing texts
\* give 60; 'wide outdoor range' with 'requires permit' gives 75.
C10_SpanishKeywords ==
    bpc = "returned" =>
        /\ IsNum(rb_score)
        /\ rb_score.n >= 30 /\ rb_score.n <= 95
        /\ rb_score.n = RuleScore({"amplio", "rango", "outdoor", "hostil"},
                                  {"línea de vista", "permiso", "espacio aéreo",
                                   "clasificada"})
        /\ rb_row.cells \in {<<>>, <<Txt(""), Txt("")>>, <<NaN, NaN>>}
              => rb_score.n = 60
        /\ rb_row.cells = <<Txt("wide outdoor range"), Txt("requires permit")>>
              => rb_score.n = 75

C10_Witness ==
    /\ bpc = "returned"
    /\ rb_row.cells = <<Txt("Rango amplio"), Txt("requires Permiso")>>
    /\ rb_score = Num(65)

(***************************************************************************)
(* DataFrame primitives used by the script.                                *)
(***************************************************************************)
\* position of the first column named c
ColIdx(df, c) ==
    CHOOSE i \in 1..Len(df.cols) :
        /\ df.cols[i] = c
        /\ \A j \in 1..(i - 1) : df.cols[j] # c

\* df[c]: the cells of column c, one per row
Column(df, c) == [r \in 1..Len(df.rows) |-> df.rows[r][ColIdx(df, c)]]

\* df[c] = cells: replaces the column when it exists, appends it otherwise
SetColumn(df, c, cells) ==
    IF HasCol(df, c)
    THEN [df EXCEPT !.rows =
            [r \in 1..Len(df.rows) |->
               [df.rows[r] EXCEPT ![ColIdx(df, c)] = cells[r]]]]
    ELSE [cols |-> Append(df.cols, c),
          rows |-> [r \in 1..Len(df.rows) |-> Append(df.rows[r], cells[r])]]

\* a numeric column holding a missing value or a float is a float column
AsSeries(cells) ==
    IF \E r \in 1..Len(cells) : IsNaN(cells[r]) \/ (IsNum(cells[r]) /\ cells[r].fl)
    THEN [r \in 1..Len(cells) |->
            IF IsNum(cells[r]) THEN Flt(cells[r].n) ELSE cells[r]]
    ELSE cells

IsDigits(t) ==
    /\ Len(t) > 0
    /\ \A i \in 1..Len(t) : \E d \in 1..10 : Ch(Digits, d) = Ch(t, i)

DigitVal(c) == (CHOOSE d \in 1..10 : Ch(Digits, d) = c) - 1

RECURSIVE ParseNat(_, _)
ParseNat(t, i) ==
    IF i = 0 THEN 0 ELSE 10 * ParseNat(t, i - 1) + DigitVal(Ch(t, i))

\* one value under pd.to_numeric(errors="coerce"): numbers stay, digit
\* strings parse, any other text and the missing value become NaN.
\* (Texts of the model are digit strings or not numbers at all.)
Coerce(c) ==
    IF IsNum(c) THEN c
    ELSE IF IsStr(c) /\ IsDigits(Strip(c.s)) THEN Num(ParseNat(Strip(c.s), Len(Strip(c.s))))
    ELSE NaN

\* pd.to_numeric(series, errors="coerce")
to_numeric(cells) == AsSeries([r \in 1..Len(cells) |-> Coerce(cells[r])])

\* series.fillna(0), one value
Fillna0(c) == IF IsNaN(c) THEN Flt(0) ELSE c

\* sorted(series.dropna().unique()), as the set of options it offers
Options(df, c) == {x \in Range(Column(df, c)) : ~IsNaN(x)}

RowOf(df, r) == [cols |-> df.cols, cells |-> df.rows[r]]

(***************************************************************************)
(* Carga de datos (lines 49-60).                                           *)
(***************************************************************************)
SheetNames == <<"Catalogo", "Adopcion", "Contactos">>

\* The sheets are read in order inside one try block: the first read that
\* raises ends the block, and the except clause reports one error.
ReadWorkbook(wb) ==
    IF wb = None
    THEN [cat |-> NoTable, adop |-> NoTable, cont |-> NoTable, err |-> FALSE]
    ELSE IF ~wb.parse_ok
    THEN [cat |-> NoTable, adop |-> NoTable, cont |-> NoTable, err |-> TRUE]
    ELSE LET S(n) == wb.sheets[n]
             Fails(n) == S(n).present /\ ~S(n).readable
             Reads(n) == S(n).present /\ S(n).readable
             reach2 == ~Fails("Catalogo")
             reach3 == reach2 /\ ~Fails("Adopcion")
         IN  [cat  |-> IF Reads("Catalogo") THEN S("Catalogo").table ELSE NoTable,
              adop |-> IF reach2 /\ Reads("Adopcion")
                       THEN S("Adopcion").table ELSE NoTable,
              cont |-> IF reach3 /\ Reads("Contactos")
                       THEN S("Contactos").table ELSE NoTable,
              err  |-> \/ Fails("Catalogo")
                       \/ (reach2 /\ Fails("Adopcion"))
                       \/ (reach3 /\ Fails("Contactos"))]

Msg(kind, text) == [kind |-> kind, text |-> text]

LoadExcel ==
    /\ pc = "load"
    /\ LET r == ReadWorkbook(up_xlsx)
       IN  /\ df_cat' = r.cat
           /\ df_adop' = r.adop
           /\ df_contacts' = r.cont
           /\ shown' = IF r.err
                       THEN Append(shown, Msg("error", "Error leyendo Excel"))
                       ELSE shown
    /\ pc' = "normalize"
    /\ UNCHANGED <<up_xlsx, cat_ok, adp_ok, con_ok, validation_msgs, sel, df_cat_f,
                   derived, filter_calls, normVars, reqVars, robVars>>

(***************************************************************************)
(* Normalizacion posterior a lectura (lines 62-69).                        *)
(***************************************************************************)
NormalizeIfLoaded(df) == IF ~Empty(df) THEN normalize_cols(df).ret ELSE df

\* line 68-69: escala as a copy of plataforma_escala
EscalaCompat(df) ==
    IF ~Empty(df) /\ ~HasCol(df, "escala") /\ HasCol(df, "plataforma_escala")
    THEN SetColumn(df, "escala", Column(df, "plataforma_escala"))
    ELSE df

NormalizeTables ==
    /\ pc = "normalize"
    /\ df_cat' = EscalaCompat(NormalizeIfLoaded(df_cat))
    /\ df_adop' = NormalizeIfLoaded(df_adop)
    /\ df_contacts' = NormalizeIfLoaded(df_contacts)
    /\ pc' = "validate"
    /\ UNCHANGED <<up_xlsx, shown, cat_ok, adp_ok, con_ok, validation_msgs, sel,
                   df_cat_f, derived, filter_calls, normVars, reqVars, robVars>>

(***************************************************************************)
(* Validaciones (lines 85-93).                                             *)
(***************************************************************************)
\* req_check(...) if not df.empty else (False, not loaded)
CheckTable(df, cols, title) ==
    IF ~Empty(df) THEN req_check(df, cols, title)
    ELSE [ok |-> FALSE, msg |-> NotLoadedMsg(title)]

Validate ==
    /\ pc = "validate"
    /\ LET c == CheckTable(df_cat, REQUIRED_CATALOG_COLS, "Catálogo")
           a == CheckTable(df_adop, REQUIRED_ADOP_COLS, "Adopción")
           k == CheckTable(df_contacts, REQUIRED_CONT_COLS, "Contactos")
       IN  /\ cat_ok' = c.ok
           /\ adp_ok' = a.ok
           /\ con_ok' = k.ok
           /\ validation_msgs' = <<c.msg, a.msg, k.msg>>
    /\ pc' = "gate"
    /\ UNCHANGED <<up_xlsx, df_cat, df_adop, df_contacts, shown, sel, df_cat_f,
                   derived, filter_calls, normVars, reqVars, robVars>>

GatePassAlways ==
    /\ pc = "gate"
    /\ pc' = "numeric"
    /\ UNCHANGED <<up_xlsx, df_cat, df_adop, df_contacts, shown, cat_ok, adp_ok,
                   con_ok, validation_msgs, sel, df_cat_f, derived, filter_calls,
                   normVars, reqVars, robVars>>

\* if not cat_ok: st.info(...); st.stop()
Gate ==
    /\ pc = "gate"
    /\ IF ~cat_ok
       THEN /\ shown' = Append(shown, Msg("info", "Sube el **Catálogo** para comenzar."))
            /\ pc' = "stopped"
       ELSE /\ shown' = shown
            /\ pc' = "numeric"
    /\ UNCHANGED <<up_xlsx, df_cat, df_adop, df_contacts, cat_ok, adp_ok, con_ok,
                   validation_msgs, sel, df_cat_f, derived, filter_calls,
                   normVars, reqVars, robVars>>

(***************************************************************************)
(* Limpieza y campos numericos (lines 100-101).                            *)
(***************************************************************************)
\* df.get(c, default): the column, or the default for every row
GetColumn(df, c, default) ==
    IF HasCol(df, c) THEN Column(df, c) ELSE [r \in 1..Len(df.rows) |-> default]

NumericFields ==
    /\ pc = "numeric"
    /\ df_cat' =
          LET d1 == SetColumn(df_cat, "trl_num",
                              to_numeric(GetColumn(df_cat, "trl", NaN)))
          IN  SetColumn(d1, "lod_num",
                        to_numeric(GetColumn(d1, "limite_deteccion_valor", NaN)))
    /\ derived' = derived \cup {"trl_num", "lod_num"}
    /\ pc' = "scores"
    /\ UNCHANGED <<up_xlsx, df_adop, df_contacts, shown, cat_ok, adp_ok, con_ok,
                   validation_msgs, sel, df_cat_f, filter_calls,
                   normVars, reqVars, robVars>>

(***************************************************************************)
(* Puntajes del Radar si no vienen en el Excel (lines 104-139).            *)
(***************************************************************************)
WithExactitud(df) ==
    IF ~HasCol(df, "exactitud_score")
    THEN LET src == GetColumn(df, "exactitud_incertidumbre", Txt(""))
         IN  SetColumn(df, "exactitud_score",
                       AsSeries([r \in 1..Len(src) |-> map_exactitud(src[r])]))
    ELSE df

WithCobertura(df) ==
    IF ~HasCol(df, "cobertura_score")
    THEN LET src == GetColumn(df, "cobertura_espacial_temporal", Txt(""))
         IN  SetColumn(df, "cobertura_score",
                       AsSeries([r \in 1..Len(src) |-> map_cobertura(src[r])]))
    ELSE df

WithCosto(df) ==
    IF ~HasCol(df, "costo_score")
    THEN LET src == GetColumn(df, "costo_capex_opex", Txt(""))
         IN  SetColumn(df, "costo_score",
                       AsSeries([r \in 1..Len(src) |-> map_costo(src[r])]))
    ELSE df

WithRobustez(df) ==
    IF ~HasCol(df, "robustez_score")
    THEN SetColumn(df, "robustez_score",
                   AsSeries([r \in 1..Len(df.rows) |-> map_robustez(RowOf(df, r))]))
    ELSE df

ScoreCols == {"exactitud_score", "cobertura_score", "costo_score", "robustez_score"}

DeriveScores ==
    /\ pc = "scores"
    /\ df_cat' = WithRobustez(WithCosto(WithCobertura(WithExactitud(df_cat))))
    /\ derived' = derived \cup {c \in ScoreCols : ~HasCol(df_cat, c)}
    /\ pc' = "widgets"
    /\ UNCHANGED <<up_xlsx, df_adop, df_contacts, shown, cat_ok, adp_ok, con_ok,
                   validation_msgs, sel, df_cat_f, filter_calls,
                   normVars, reqVars, robVars>>

(***************************************************************************)
(* Filtros (lines 142-162).                                                *)
(***************************************************************************)
\* [trl_min, trl_max] pairs tried; each number input takes 0..9 freely
TrlRanges == {<<0, 9>>, <<3, 6>>, <<0, 0>>, <<4, 9>>, <<6, 3>>}

QueryInputs == {"", "ACME", "ogi x"}

\* the user's choice in the four multiselects, the two number inputs (each
\* between 0 and 9) and the text input
ChooseFilters ==
    /\ pc = "widgets"
    /\ \E seg \in SUBSET Options(df_cat, "segmento_negocio"),
          tipo \in SUBSET Options(df_cat, "tipo_emision"),
          eje \in SUBSET Options(df_cat, "eje_monitoreo"),
          tax \in SUBSET Options(df_cat, "taxonomia"),
          t \in TrlRanges, q \in QueryInputs :
          /\ Cardinality(seg) + Cardinality(tipo) + Cardinality(eje)
                + Cardinality(tax) <= MaxPicked
          /\ sel' = [seg_sel |-> seg, tipo_sel |-> tipo, eje_sel |-> eje,
                     tax_sel |-> tax, trl_min |-> t[1], trl_max |-> t[2], query |-> q]
    /\ pc' = "filter"
    /\ UNCHANGED <<up_xlsx, df_cat, df_adop, df_contacts, shown, cat_ok, adp_ok,
                   con_ok, validation_msgs, df_cat_f, derived, filter_calls,
                   normVars, reqVars, robVars>>

\* series.between(lo, hi), one value (inclusive)
Between(c, lo, hi) == IsNum(c) /\ lo <= c.n /\ c.n <= hi

\* " ".join(map(str, r.values)).lower()
RowText(cells) == Lower(Join([i \in 1..Len(cells) |-> PyStr(cells[i])], " "))

RECURSIVE RowsWhere(_, _, _)
RowsWhere(rows, m, r) ==
    IF r > Len(rows) THEN <<>>
    ELSE IF m[r] THEN <<rows[r]>> \o RowsWhere(rows, m, r + 1)
    ELSE RowsWhere(rows, m, r + 1)

apply_filters_nan_dropped(df, s) ==
    LET N  == Len(df.rows)
        m  == [r \in 1..N |->
                 /\ s.seg_sel # {} => Column(df, "segmento_negocio")[r] \in s.seg_sel
                 /\ s.tipo_sel # {} => Column(df, "tipo_emision")[r] \in s.tipo_sel
                 /\ s.eje_sel # {} => Column(df, "eje_monitoreo")[r] \in s.eje_sel
                 /\ s.tax_sel # {} => Column(df, "taxonomia")[r] \in s.tax_sel
                 /\ HasCol(df, "trl_num") =>
                       Between(Column(df, "trl_num")[r], s.trl_min, s.trl_max)
                 /\ s.query # "" => Contains(RowText(df.rows[r]), Lower(s.query))]
    IN  [cols |-> df.cols, rows |-> RowsWhere(df.rows, m, 1)]

apply_filters_case_sensitive(df, s) ==
    LET N  == Len(df.rows)
        m  == [r \in 1..N |->
                 /\ s.seg_sel # {} => Column(df, "segmento_negocio")[r] \in s.seg_sel
                 /\ s.tipo_sel # {} => Column(df, "tipo_emision")[r] \in s.tipo_sel
                 /\ s.eje_sel # {} => Column(df, "eje_monitoreo")[r] \in s.eje_sel
                 /\ s.tax_sel # {} => Column(df, "taxonomia")[r] \in s.tax_sel
                 /\ HasCol(df, "trl_num") =>
                       Between(Fillna0(Column(df, "trl_num")[r]), s.trl_min, s.trl_max)
                 /\ s.query # "" =>
                       Contains(Join([i \in 1..Len(df.rows[r]) |-> PyStr(df.rows[r][i])],
                                     " "), s.query)]
    IN  [cols |-> df.cols, rows |-> RowsWhere(df.rows, m, 1)]

\* apply_filters(df): the mask m starts all True and is and-ed with each
\* active predicate; df[m] keeps the rows where it is True
apply_filters(df, s) ==
    LET N  == Len(df.rows)
        m0 == [r \in 1..N |-> TRUE]
        m1 == IF s.seg_sel # {}
              THEN [r \in 1..N |->
                      m0[r] /\ Column(df, "segmento_negocio")[r] \in s.seg_sel]
              ELSE m0
        m2 == IF s.tipo_sel # {}
              THEN [r \in 1..N |->
                      m1[r] /\ Column(df, "tipo_emision")[r] \in s.tipo_sel]
              ELSE m1
        m3 == IF s.eje_sel # {}
              THEN [r \in 1..N |->
                      m2[r] /\ Column(df, "eje_monitoreo")[r] \in s.eje_sel]
              ELSE m2
        m4 == IF s.tax_sel # {}
              THEN [r \in 1..N |->
                      m3[r] /\ Column(df, "taxonomia")[r] \in s.tax_sel]
              ELSE m3
        m5 == IF HasCol(df, "trl_num")
              THEN [r \in 1..N |->
                      m4[r] /\ Between(Fillna0(Column(df, "trl_num")[r]),
                                       s.trl_min, s.trl_max)]
              ELSE m4
        m6 == IF s.query # ""
              THEN [r \in 1..N |->
                      m5[r] /\ Contains(RowText(df.rows[r]), Lower(s.query))]
              ELSE m5
    IN  [cols |-> df.cols, rows |-> RowsWhere(df.rows, m6, 1)]

\* df_cat_f = apply_filters(df_cat)
ApplyFilters ==
    /\ pc = "filter"
    /\ df_cat_f' = apply_filters(df_cat, sel)
    /\ filter_calls' = filter_calls + 1
    /\ pc' = "render"
    /\ UNCHANGED <<up_xlsx, df_cat, df_adop, df_contacts, shown, cat_ok, adp_ok,
                   con_ok, validation_msgs, sel, derived,
                   normVars, reqVars, robVars>>

(***************************************************************************)
(* KPIs, pestanas y validaciones de entrada (lines 164-311).  The tabs     *)
(* draw from df_cat_f; the one thing they write is its key column (line    *)
(* 253).  Then the validation messages and the closing notice are written. *)
(***************************************************************************)
\* series.fillna(""), one value.  (The dash of the key is written "-".)
FillnaEmpty(c) == IF IsNaN(c) THEN Txt("") ELSE c

WithKey(df) ==
    IF Empty(df) THEN df
    ELSE LET p == GetColumn(df, "proveedor", Txt(""))
             q == GetColumn(df, "producto_modelo", Txt(""))
         IN  SetColumn(df, "key",
                       [r \in 1..Len(df.rows) |->
                          Txt(PyStr(FillnaEmpty(p[r])) \o " - "
                              \o PyStr(FillnaEmpty(q[r])))])

RECURSIVE WriteAll(_, _, _)
WriteAll(out, msgs, i) ==
    IF i > Len(msgs) THEN out
    ELSE IF msgs[i] # ""
         THEN WriteAll(Append(out, Msg("write", msgs[i])), msgs, i + 1)
         ELSE WriteAll(out, msgs, i + 1)

RenderAndReport ==
    /\ pc = "render"
    /\ df_cat_f' = WithKey(df_cat_f)
    /\ shown' = Append(WriteAll(shown, validation_msgs, 1),
                       Msg("success", "MVP02. Radar interactivo de IA para Metano en fase de prueba"))
    /\ pc' = "done"
    /\ UNCHANGED <<up_xlsx, df_cat, df_adop, df_contacts, cat_ok, adp_ok, con_ok,
                   validation_msgs, sel, derived, filter_calls,
                   normVars, reqVars, robVars>>

\* any interaction re-executes the script from the top on the same upload
Rerun ==
    /\ pc \in {"done", "stopped"}
    /\ pc' = "load"
    /\ df_cat' = NoTable
    /\ df_adop' = NoTable
    /\ df_contacts' = NoTable
    /\ shown' = <<>>
    /\ cat_ok' = FALSE
    /\ adp_ok' = FALSE
    /\ con_ok' = FALSE
    /\ validation_msgs' = <<>>
    /\ sel' = NoSel
    /\ df_cat_f' = NoTable
    /\ derived' = {}
    /\ filter_calls' = 0
    /\ UNCHANGED <<up_xlsx, normVars, reqVars, robVars>>

(***************************************************************************)
(* The uploads the runs are checked on.                                    *)
(***************************************************************************)
\* a header as a spreadsheet may spell it
RawHeader(c) ==
    CASE c = "proveedor"              -> " Proveedor"
      [] c = "producto_modelo"        -> "Producto  Modelo"
      [] c = "escala"                 -> "Plataforma Escala"
      [] c = "trl"                    -> "TRL"
      [] c = "limite_deteccion_valor" -> "LOD"
      [] c = "fecha"                  -> "Fecha "
      [] c = "sitio_web"              -> "Sitio Web"
      [] OTHER                        -> c

RawCols(cols) == [i \in 1..Len(cols) |-> RawHeader(cols[i])]

\* a row: the profile's cell under each header it names, x elsewhere
MkRow(cols, profile) ==
    [i \in 1..Len(cols) |->
       LET c == alias_map(CleanHeader(cols[i]))
       IN  IF c \in DOMAIN profile THEN profile[c] ELSE DefaultCell]

MkTable(cols, profiles) ==
    [cols |-> cols, rows |-> [r \in 1..Len(profiles) |-> MkRow(cols, profiles[r])]]

ScoreHeaders ==
    <<"exactitud_score", "cobertura_score", "costo_score", "robustez_score">>

ProfileA ==
    ("proveedor" :> Txt("Acme")) @@ ("segmento_negocio" :> Txt("Upstream"))
    @@ ("tipo_emision" :> Txt("Fugitiva")) @@ ("eje_monitoreo" :> Txt("Punto"))
    @@ ("taxonomia" :> Txt("OGI")) @@ ("trl" :> Num(4))
    @@ ("limite_deteccion_valor" :> Num(5))
    @@ ("exactitud_incertidumbre" :> Txt("±0.5 ppb, alta"))
    @@ ("cobertura_espacial_temporal" :> Txt("Planta"))
    @@ ("costo_capex_opex" :> Txt("Bajo"))
    @@ ("condiciones_climaticas" :> Txt("Rango amplio"))
    @@ ("condiciones_operativas" :> Txt("Requiere permiso"))

ProfileB ==
    ("proveedor" :> Txt("Orbital")) @@ ("segmento_negocio" :> Txt("Midstream"))
    @@ ("tipo_emision" :> Txt("Venteo")) @@ ("eje_monitoreo" :> Txt("Area"))
    @@ ("taxonomia" :> Txt("Satelite")) @@ ("trl" :> NaN)
    @@ ("exactitud_incertidumbre" :> Txt("Media"))
    @@ ("cobertura_espacial_temporal" :> Txt("Regional"))
    @@ ("costo_capex_opex" :> NaN)

ProfileC ==
    ("proveedor" :> Txt("Acme")) @@ ("segmento_negocio" :> Txt("Upstream"))
    @@ ("tipo_emision" :> Txt("Venteo")) @@ ("eje_monitoreo" :> Txt("Punto"))
    @@ ("taxonomia" :> Txt("Satelite")) @@ ("trl" :> Txt("alto"))

ProfileD ==
    ("proveedor" :> NaN) @@ ("segmento_negocio" :> NaN)
    @@ ("tipo_emision" :> Txt("Fugitiva")) @@ ("eje_monitoreo" :> Txt("Area"))
    @@ ("taxonomia" :> Txt("OGI")) @@ ("trl" :> Num(12))

ProfileE ==
    ("proveedor" :> Txt("Drone Co")) @@ ("segmento_negocio" :> Txt("Midstream"))
    @@ ("tipo_emision" :> Txt("Fugitiva")) @@ ("eje_monitoreo" :> Txt("Punto"))
    @@ ("taxonomia" :> Txt("Satelite")) @@ ("trl" :> Txt("9"))

ProfileF ==
    ("proveedor" :> Txt("Acme")) @@ ("segmento_negocio" :> Txt("Upstream"))
    @@ ("tipo_emision" :> Txt("Venteo")) @@ ("eje_monitoreo" :> Txt("Area"))
    @@ ("taxonomia" :> Txt("OGI")) @@ ("trl" :> Num(2))

\* rows that bring their own score columns
ScoredInRange ==
    ProfileA @@ ("exactitud_score" :> Num(80)) @@ ("cobertura_score" :> NaN)
    @@ ("costo_score" :> Num(0)) @@ ("robustez_score" :> Num(100))

ScoredOutOfRange ==
    ProfileA @@ ("exactitud_score" :> Num(150)) @@ ("cobertura_score" :> Num(-5))
    @@ ("costo_score" :> Num(70)) @@ ("robustez_score" :> NaN)

GateCatalogs ==
    {MkTable(REQUIRED_CATALOG_COLS, <<ProfileA>>),
     MkTable(RawCols(REQUIRED_CATALOG_COLS), <<ProfileB>>),
     MkTable(REQUIRED_CATALOG_COLS \o ScoreHeaders, <<ScoredInRange>>),
     MkTable(REQUIRED_CATALOG_COLS \o ScoreHeaders, <<ScoredOutOfRange>>),
     MkTable(REQUIRED_CATALOG_COLS \o <<"costo_score">>, <<ScoredOutOfRange>>),
     MkTable(REQUIRED_CATALOG_COLS, <<ProfileE, ProfileF>>),
     MkTable(REQUIRED_CATALOG_COLS, <<>>),
     MkTable(Without(REQUIRED_CATALOG_COLS, {"taxonomia"}), <<ProfileA>>),
     MkTable(Without(RawCols(REQUIRED_CATALOG_COLS), {"TRL", "condiciones_operativas"}),
             <<ProfileB>>),
     MkTable(REQUIRED_ADOP_COLS, <<ProfileA>>)}

RECURSIVE SeqsUpTo(_, _)
SeqsUpTo(S, n) ==
    IF n = 0 THEN {<<>>}
    ELSE LET P == SeqsUpTo(S, n - 1)
         IN  P \cup {Append(p, x) : p \in P, x \in S}

FilterProfiles == {ProfileA, ProfileB, ProfileC, ProfileD}

FilterCatalogs ==
    {MkTable(REQUIRED_CATALOG_COLS, ps) : ps \in SeqsUpTo(FilterProfiles, MaxRows) \ {<<>>}}

AdopTables ==
    {PlainTable(RawCols(REQUIRED_ADOP_COLS), 1),
     PlainTable(Without(REQUIRED_ADOP_COLS, {"fecha"}), 1)}

ContTables ==
    {PlainTable(RawCols(REQUIRED_CONT_COLS), 1),
     PlainTable(Without(REQUIRED_CONT_COLS, {"contacto_email", "sitio_web"}), 1)}

\* a sheet of the workbook: absent, present but unreadable, or a table
Sheets(tables) ==
    {[present |-> FALSE, readable |-> FALSE, table |-> NoTable],
     [present |-> TRUE, readable |-> FALSE, table |-> NoTable]}
    \cup {[present |-> TRUE, readable |-> TRUE, table |-> t] : t \in tables}

Workbook(c, a, k) ==
    [parse_ok |-> TRUE,
     sheets |-> ("Catalogo" :> c) @@ ("Adopcion" :> a) @@ ("Contactos" :> k)]

\* a file pd.ExcelFile cannot open
CorruptWorkbook ==
    [parse_ok |-> FALSE,
     sheets |-> [n \in Range(SheetNames) |->
                   [present |-> FALSE, readable |-> FALSE, table |-> NoTable]]]

Uploads ==
    {None, CorruptWorkbook}
    \cup {Workbook(c, a, k) :
             c \in Sheets(GateCatalogs), a \in Sheets(AdopTables),
             k \in Sheets(ContTables)}

FilterUploads ==
    {Workbook([present |-> TRUE, readable |-> TRUE, table |-> c],
              [present |-> TRUE, readable |-> TRUE,
               table |-> PlainTable(REQUIRED_ADOP_COLS, 1)],
              [present |-> FALSE, readable |-> FALSE, table |-> NoTable]) :
        c \in FilterCatalogs}

\* the script starts with three empty DataFrames (line 34)
StartOfRun ==
    /\ pc = "load"
    /\ df_cat = NoTable
    /\ df_adop = NoTable
    /\ df_contacts = NoTable
    /\ shown = <<>>
    /\ cat_ok = FALSE
    /\ adp_ok = FALSE
    /\ con_ok = FALSE
    /\ validation_msgs = <<>>
    /\ sel = NoSel
    /\ df_cat_f = NoTable
    /\ derived = {}
    /\ filter_calls = 0
    /\ IdleNorm
    /\ IdleReq
    /\ IdleRob

Init == up_xlsx \in Uploads /\ StartOfRun

InitFilter == up_xlsx \in FilterUploads /\ StartOfRun

Next ==
    \/ LoadExcel
    \/ NormalizeTables
    \/ Validate
    \/ Gate
    \/ NumericFields
    \/ DeriveScores
    \/ ChooseFilters
    \/ ApplyFilters
    \/ RenderAndReport
    \/ Rerun

Spec == Init /\ [][Next]_vars

SpecFilter == InitFilter /\ [][Next]_vars

(***************************************************************************)
(* Properties of a run.                                                    *)
(***************************************************************************)
\* the catalog, as loaded and normalized, has rows and every required column
CatalogUsable == ~Empty(df_cat) /\ AllPresent(df_cat, REQUIRED_CATALOG_COLS)

PastValidation ==
    pc \in {"gate", "stopped", "numeric", "scores", "widgets", "filter", "render",
            "done"}

\* C1: a run whose catalog is absent, empty or lacks a required column never
\* gets past the gate: it computes no score or numeric helper column and
\* never invokes apply_filters; and a run is halted only for its catalog,
\* never for the adoption or contacts table alone.
C1_GateHaltsOnCatalogOnly ==
    PastValidation =>
        /\ ~CatalogUsable =>
              /\ pc \in {"gate", "stopped"}
              /\ derived = {}
              /\ filter_calls = 0
              /\ df_cat_f = NoTable
              /\ \A c \in {"trl_num", "lod_num"} : ~HasCol(df_cat, c)
        /\ pc = "stopped" => ~CatalogUsable

C1_Witness ==
    /\ pc = "stopped"
    /\ ~Empty(df_cat)
    /\ HasCol(df_cat, "proveedor")
    /\ ~HasCol(df_cat, "taxonomia")
    /\ ~adp_ok
    /\ derived = {}
    /\ filter_calls = 0

Shown(text) == \E j \in 1..Len(shown) : shown[j].text = text

\* C2: when a run ends, halted at the gate or not, the three validation
\* messages computed by req_check have been written to the page.
C2_ValidationMessagesShown ==
    pc \in {"done", "stopped"} =>
        \A i \in 1..Len(validation_msgs) : Shown(validation_msgs[i])

\* C6: after the score stage every cell of the four score columns is absent
\* or a number in [0,100], derived or supplied.
C6_ScoresWithinRange ==
    pc \in {"widgets", "filter", "render", "done"} =>
        \A c \in ScoreCols : \A r \in 1..Len(df_cat.rows) :
            LET x == Column(df_cat, c)[r]
            IN  IsNaN(x) \/ (IsNum(x) /\ 0 <= x.n /\ x.n <= 100)

\* what a sheet holds when it is in the workbook and can be read
SheetTable(n) ==
    IF up_xlsx.parse_ok /\ up_xlsx.sheets[n].present /\ up_xlsx.sheets[n].readable
    THEN up_xlsx.sheets[n].table
    ELSE NoTable

\* C9: when reading the workbook fails on some sheet, one error is reported
\* and every sheet that is present and readable is still loaded, read before
\* or after the failing one.
C9_ReadableSheetsLoaded ==
    (pc = "normalize" /\ \E j \in 1..Len(shown) : shown[j].kind = "error") =>
        /\ Cardinality({j \in 1..Len(shown) : shown[j].kind = "error"}) = 1
        /\ df_cat = SheetTable("Catalogo")
        /\ df_adop = SheetTable("Adopcion")
        /\ df_contacts = SheetTable("Contactos")

(***************************************************************************)
(* Properties of apply_filters.                                            *)
(***************************************************************************)
Cell(row, c) == row[ColIdx(df_cat, c)]

\* C7 as stated: with no category selected, TRL range [0,9] and no query the
\* filter returns exactly the input rows, whatever their TRL.
C7_IdentityKeepsEveryRow ==
    (pc = "render" /\ sel = NoSel) => df_cat_f.rows = df_cat.rows

\* C7 amended: with no category selected, TRL range [0,9] and no query the
\* filter returns, in order, exactly the rows whose numeric TRL is missing
\* (absent or unparsable) or lies in [0,9]; a row with a TRL outside [0,9]
\* is dropped.
C7_IdentityWithinTrlRange ==
    (pc = "render" /\ sel = NoSel) =>
        LET Within(row) ==
                \/ IsNaN(Cell(row, "trl_num"))
                \/ (0 <= Cell(row, "trl_num").n /\ Cell(row, "trl_num").n <= 9)
        IN  /\ df_cat_f.cols = df_cat.cols
            /\ df_cat_f.rows = SelectSeq(df_cat.rows, Within)

C7_Witness ==
    /\ pc = "render"
    /\ sel = NoSel
    /\ Column(df_cat, "trl") = <<Txt("alto"), Num(12)>>
    /\ Column(df_cat_f, "trl") = <<Txt("alto")>>

\* the claim's predicate for one row under the current selection
Selected(row) ==
    /\ sel.seg_sel = {} \/ Cell(row, "segmento_negocio") \in sel.seg_sel
    /\ sel.tipo_sel = {} \/ Cell(row, "tipo_emision") \in sel.tipo_sel
    /\ sel.eje_sel = {} \/ Cell(row, "eje_monitoreo") \in sel.eje_sel
    /\ sel.tax_sel = {} \/ Cell(row, "taxonomia") \in sel.tax_sel
    /\ LET t == IF IsNaN(Cell(row, "trl_num")) THEN 0 ELSE Cell(row, "trl_num").n
       IN  sel.trl_min <= t /\ t <= sel.trl_max
    /\ sel.query = "" \/ Contains(RowText(row), Lower(sel.query))

\* C8: apply_filters returns exactly the rows that satisfy every predicate,
\* in the original order and with the same columns, and leaves the source
\* table as it was.
C8_FilterIsConjunction ==
    [][(pc = "filter" /\ pc' = "render") =>
          /\ df_cat' = df_cat
          /\ df_cat_f'.cols = df_cat.cols
          /\ df_cat_f'.rows = SelectSeq(df_cat.rows, Selected)]_vars

C8_Witness ==
    /\ pc = "render"
    /\ sel.seg_sel = {Txt("Upstream")}
    /\ sel.query = "ACME"
    /\ sel.trl_min = 0
    /\ Column(df_cat, "trl") = <<Txt("alto"), Num(12)>>
    /\ Column(df_cat_f, "trl") = <<Txt("alto")>>

====
